---- MODULE Spec2Model ----
(***************************************************************************)
(* Model of APIs/PRC_API.py: the module-level key cache server_keys, the   *)
(* PRC_API client (fetch_server_key, _send_request, _fetch_data, the       *)
(* command senders, fetch_all_server_data, close), the exception and       *)
(* record classes it builds, and the collaborators it awaits: the          *)
(* erlc_keys collection (find_one), the aiohttp session and asyncio.gather.*)
(* Every await of the code is a suspension point: the code between two     *)
(* awaits is one atomic step of the event loop.                            *)
(***************************************************************************)
EXTENDS Integers, Sequences, FiniteSets, TLC

(* ------------------------------ bounds ---------------------------------- *)

\* Number of server ids.
MaxServers == 2
\* Number of top-level calls made besides fetch_all_server_data.
MaxCalls == 3
\* Number of times the key store is changed from outside (link / rotate).
MaxStoreChanges == 1
\* Length of the longest JSON array a response carries.
MaxLen == 2

ServerIds == 1..MaxServers
Keys == {"k1", "k2"}

(* --------------------------- values ------------------------------------- *)

\* find_one returns None (no document) or the document {"_id": id, "key": k}.
NoDoc == << >>
Doc(k) == <<k>>
Docs == {NoDoc} \cup {Doc(k) : k \in Keys}

EmptyFcn == [n \in {} |-> ""]

\* Python values that travel through the client, tagged with their kind.
Value(tag, items) == [t |-> tag, items |-> items]
NoValue == Value("none", << >>)
Str(s) == Value("str", <<s>>)

\* Decoded JSON: an array of objects, a single object, or another JSON value
\* (string, number, null).  An object is a function from member names.
JsonNames == {"Player", "self"}
JsonStrings == {"a"}
Objects == UNION {[S -> JsonStrings] : S \in SUBSET JsonNames}
JsonArray(seq) == Value("array", seq)
JsonObject(o) == Value("object", <<o>>)
JsonOther == Value("other", << >>)
\* A body resp.json() cannot decode.
Undecodable == Value("undecodable", << >>)

SeqsUpTo(S, n) == UNION {[1..k -> S] : k \in 0..n}
Bodies ==
    {JsonArray(s) : s \in SeqsUpTo(Objects, MaxLen)}
        \cup {JsonObject(o) : o \in Objects} \cup {JsonOther}

Statuses == {200, 400, 403, 422, 429, 500, 503}

\* What the upstream does with a request: the connection fails, or a response
\* arrives with a status and a body.
NetFailure == [net |-> "failed", status |-> 0, body |-> Undecodable]
Response(status, body) == [net |-> "ok", status |-> status, body |-> body]
Replies ==
    {NetFailure} \cup {Response(s, b) : s \in Statuses, b \in Bodies \cup {Undecodable}}
\* The replies used where the claims do not depend on the payload.
CoreReplies ==
    { NetFailure,
      Response(200, JsonObject([n \in {"Player"} |-> "a"])),
      Response(422, JsonObject(EmptyFcn)),
      Response(500, JsonObject(EmptyFcn)) }

\* The outcome of a coroutine: nothing yet, a returned value, or a raised
\* exception (its class, its args[0] and its instance attributes).
Outcome(kind, type, value, attrs) ==
    [kind |-> kind, type |-> type, value |-> value, attrs |-> attrs]
NoOutcome == Outcome("none", "", NoValue, EmptyFcn)
Return(v) == Outcome("return", "", v, EmptyFcn)
Raise(type, arg, attrs) == Outcome("raise", type, arg, attrs)

(* ------------------------ exception and record classes ------------------ *)

\* Python binds a keyword argument to the parameter of the same name; only
\* the rest reaches **kwargs.
BindKwargs(params, kw) == [n \in (DOMAIN kw) \ params |-> kw[n]]

ServerLinkNotFoundAsKeyError(msg) == Raise("KeyError", Str(msg), EmptyFcn)
\* raise ServerLinkNotFound("API Key not found")
ServerLinkNotFound(msg) == Raise("ServerLinkNotFound", Str(msg), EmptyFcn)

\* ResponseFailed.__init__(self, data, detail=None, code=None, *args, **kwargs)
\* sets one attribute per entry of kwargs and nothing else; Exception.__new__
\* keeps the positional arguments in args.
ResponseFailedParams == {"data", "detail", "code"}
ResponseFailed(data, kw) ==
    Raise("ResponseFailed", data, BindKwargs(ResponseFailedParams, kw))

\* BaseModel.__init__(self, *args, **kwargs): model_class(**item) is a
\* TypeError when item has a member named like the parameter self.
BaseModelParams == {"self"}
CanConstruct(item) == (DOMAIN item) \cap BaseModelParams = {}
BaseModel(cls, item) == [cls |-> cls, attrs |-> BindKwargs(BaseModelParams, item)]

TypeError == Raise("TypeError", Str("TypeError"), EmptyFcn)

(* ------------------------------ state ----------------------------------- *)

VARIABLES
    store,        \* bot.erlc_keys: server id -> document or None
    server_keys,  \* the module-level dict server_keys
    session,      \* self.session: "open" or "closed"
    tasks,        \* the coroutines: one record per call
    gather,       \* the future asyncio.gather returns to fetch_all_server_data
    lookups,      \* history: find_one calls made, per server id
    writes,       \* history: assignments to server_keys[id], per server id
    returned,     \* history: keys fetch_server_key has returned, per server id
    rotated,      \* history: the key of the id was replaced in the store
    firstFail,    \* history: the child of gather that raised first in time
    changes,      \* history: number of store changes so far
    lastDone,     \* history: the child whose return completed the composite
    stale,        \* history: the cached key of an id when its stored key changed
    notFound,     \* history: a resolve of the id ended with ServerLinkNotFound
    late          \* history: children that sent their request after gather failed

vars ==
    <<store, server_keys, session, tasks, gather, lookups, writes, returned,
      rotated, firstFail, changes, lastDone, stale, notFound, late>>

(* ------------------------------ calls ----------------------------------- *)

\* The per-resource accessors: each binds an endpoint and a record class.
Fetchers ==
    { [name |-> "_fetch_server_status", endpoint |-> "server", cls |-> "ServerStatus"],
      [name |-> "_fetch_server_players", endpoint |-> "server/players", cls |-> "ServerPlayers"],
      [name |-> "_fetch_server_join_logs", endpoint |-> "server/joinlogs", cls |-> "ServerJoinLogs"],
      [name |-> "_fetch_server_queue", endpoint |-> "server/queue", cls |-> "ServerQueue"],
      [name |-> "_fetch_server_kill_logs", endpoint |-> "server/killlogs", cls |-> "ServerKillLogs"],
      [name |-> "_fetch_server_command_logs", endpoint |-> "server/commandlogs", cls |-> "ServerCommandLogs"],
      [name |-> "_fetch_server_mod_calls", endpoint |-> "server/modcalls", cls |-> "ServerModCalls"],
      [name |-> "_fetch_server_bans", endpoint |-> "server/bans", cls |-> "ServerBans"],
      [name |-> "_fetch_server_vehicles", endpoint |-> "server/vehicles", cls |-> "ServerVehicles"] }
Fetcher(name) == CHOOSE f \in Fetchers : f.name = name

Texts == {"hello", ":kick a"}

\* json={"command": command}
CommandBody(text) == [n \in {"command"} |-> text]
MessageBodyNoPrefix(text) == [n \in {"command"} |-> text]
\* json={"command": f":m {command}"}
MessageBody(text) == [n \in {"command"} |-> ":m " \o text]

CallOf(op, name, method, endpoint, cls, text, json) ==
    [op |-> op, name |-> name, method |-> method, endpoint |-> endpoint,
     cls |-> cls, text |-> text, json |-> json]
ResolveCall ==
    CallOf("fetch_server_key", "fetch_server_key", "", "", "", "", EmptyFcn)
FetchCall(f) ==
    CallOf("_fetch_data", f.name, "GET", f.endpoint, f.cls, "", EmptyFcn)
CommandCall(text) ==
    CallOf("_send_command", "_send_command", "POST", "server/command",
           "ServerCommand", text, CommandBody(text))
MessageCall(text) ==
    CallOf("_send_message_command", "_send_message_command", "POST",
           "server/command", "", text, MessageBody(text))

Dispatches ==
    {FetchCall(f) : f \in Fetchers}
        \cup {CommandCall(x) : x \in Texts} \cup {MessageCall(x) : x \in Texts}
\* The calls used where the claims are about keys, the session and scheduling.
CoreCalls == {ResolveCall, FetchCall(Fetcher("_fetch_server_status"))}

\* asyncio.gather(status, players, join_logs, queue), in argument order.
GatherCalls ==
    << FetchCall(Fetcher("_fetch_server_status")),
       FetchCall(Fetcher("_fetch_server_players")),
       FetchCall(Fetcher("_fetch_server_join_logs")),
       FetchCall(Fetcher("_fetch_server_queue")) >>
\* The keys of the dict fetch_all_server_data returns, in the same order.
SlotNames == <<"status", "players", "join_logs", "queue">>

Children == 1..Len(GatherCalls)
Standalone == (Len(GatherCalls) + 1)..(Len(GatherCalls) + MaxCalls)
Tasks == Children \cup Standalone

\* A coroutine: where it is suspended (pc), its arguments, its locals (server,
\* key, status, data), the requests it has issued and its outcome; lookups,
\* closedAtStart, prev, staleAtStart and failedBefore are history.
IdleTask ==
    [pc |-> "idle", call |-> ResolveCall, sid |-> 0, server |-> NoDoc,
     key |-> "", status |-> 0, data |-> NoValue, requests |-> << >>, result |-> NoOutcome,
     lookups |-> 0, closedAtStart |-> FALSE, prev |-> {}, staleAtStart |-> "",
     failedBefore |-> FALSE]

base_url == "base_url"
Url(endpoint) == base_url \o "/" \o endpoint

Finish(task, outcome) == [task EXCEPT !.pc = "done", !.result = outcome]

(* --------------------------- the key cache ------------------------------ *)

CacheMissAlways(id) == TRUE
\* if server_id not in server_keys
CacheMiss(id) == id \notin DOMAIN server_keys

CacheInsertOnly(cache, id, k) == (id :> k)
CacheInsertAll(cache, id, k) == [i \in DOMAIN cache \cup {id} |-> k]
\* server_keys[server_id] = server["key"]
CacheInsert(cache, id, k) == (id :> k) @@ cache

\* "if not server" is false: find_one returned a document
Found(server) == server # NoDoc

CacheOnMissNegative(cache, id) == (id :> "") @@ cache
\* raise ServerLinkNotFound: nothing is assigned to server_keys
CacheOnMiss(cache, id) == cache

(* --------------------------- _send_request ------------------------------ *)

SessionClosedNever == FALSE
\* aiohttp refuses a request on a closed session (RuntimeError).
SessionClosed == session = "closed"

\* self.session.request(method, url, headers={"Server-Key": server_key}, **kwargs)
HttpRequest(task, key) ==
    [method |-> task.call.method, url |-> Url(task.call.endpoint),
     sid |-> task.sid, headers |-> [n \in {"Server-Key"} |-> key],
     json |-> task.call.json]

\* The code that follows the return of fetch_server_key, up to the next await.
AfterKey(task, key) ==
    LET t1 == [task EXCEPT !.key = key] IN
    IF task.call.op = "fetch_server_key" THEN Finish(t1, Return(Str(key)))
    ELSE IF SessionClosed
         THEN Finish(t1, Raise("RuntimeError", Str("Session is closed"), EmptyFcn))
         ELSE [t1 EXCEPT !.pc = "resp", !.requests = Append(@, HttpRequest(t1, key))]

\* A call up to its first await: a cache hit goes on to the request, a miss
\* awaits find_one.
FirstStep(call, id) ==
    LET fresh == [IdleTask EXCEPT !.call = call, !.sid = id,
                                  !.closedAtStart = (session = "closed"),
                                  !.prev = returned[id],
                                  !.staleAtStart = stale[id],
                                  !.failedBefore = notFound[id]]
    IN  IF CacheMiss(id)
        THEN [fresh EXCEPT !.pc = "find", !.lookups = @ + 1]
        ELSE AfterKey(fresh, server_keys[id])

\* error_map.get(resp.status, "Unexpected Error")
ErrorDetail(status) ==
    CASE status = 429 -> "Rate limited"
      [] status = 400 -> "Bad Request"
      [] status = 403 -> "Unauthorized"
      [] status = 422 -> "The private server has no players in it"
      [] status = 500 -> "Problem communicating with Roblox"
      [] OTHER -> "Unexpected Error"

\* model_class(**data) / ServerCommand(**data)
Construct(cls, data) ==
    IF data.t = "object" /\ CanConstruct(data.items[1])
    THEN Return(Value("instance", <<BaseModel(cls, data.items[1])>>))
    ELSE TypeError

\* _fetch_data: a list decodes element by element, anything else as one record.
FetchData(cls, data) ==
    IF data.t = "array"
    THEN IF \A i \in 1..Len(data.items) : CanConstruct(data.items[i])
         THEN Return(Value("list",
                [i \in 1..Len(data.items) |-> BaseModel(cls, data.items[i])]))
         ELSE TypeError
    ELSE Construct(cls, data)

\* What the caller of _send_request does with the data it returns.
Wrap(call, data) ==
    CASE call.op = "_fetch_data" -> FetchData(call.cls, data)
      [] call.op = "_send_command" -> Construct(call.cls, data)
      [] OTHER -> Return(data)

OnReplyStatusFirst(task, r) ==
    IF r.net = "failed"
    THEN Finish(task, Raise("ClientError", Str("connection"), EmptyFcn))
    ELSE LET t1 == [task EXCEPT !.status = r.status] IN
         IF r.status # 200
         THEN Finish(t1, ResponseFailed(NoValue,
                   [detail |-> ErrorDetail(r.status), code |-> r.status]))
         ELSE IF r.body.t = "undecodable"
              THEN Finish(t1, Raise("ContentTypeError", Str("body"), EmptyFcn))
              ELSE Finish([t1 EXCEPT !.data = r.body], Wrap(task.call, r.body))
OnReplyRetry(task, r) ==
    IF r.net = "failed" /\ Len(task.requests) < 2
    THEN [task EXCEPT !.requests = Append(@, @[1])]
    ELSE Finish(task, Raise("ClientError", Str("connection"), EmptyFcn))
\* The code that follows the arrival of the response.
OnReply(task, r) ==
    IF r.net = "failed"
    THEN Finish(task, Raise("ClientError", Str("connection"), EmptyFcn))
    ELSE LET t1 == [task EXCEPT !.status = r.status] IN
         IF r.body.t = "undecodable"
         THEN Finish(t1, Raise("ContentTypeError", Str("body"), EmptyFcn))
         ELSE LET t2 == [t1 EXCEPT !.data = r.body] IN
              IF r.status = 200
              THEN Finish(t2, Wrap(task.call, r.body))
              ELSE Finish(t2, ResponseFailed(r.body,
                        [detail |-> ErrorDetail(r.status), code |-> r.status]))

(* ------------------------- asyncio.gather ------------------------------- *)

Min(S) == CHOOSE x \in S : \A y \in S : x <= y
Raised(task) == task.pc = "done" /\ task.result.kind = "raise"

CompositeReversed(results) ==
    Return(Value("dict",
        [i \in 1..Len(SlotNames) |->
            [name |-> SlotNames[i], value |-> results[Len(SlotNames) + 1 - i]]]))
\* return {"status": results[0], "players": results[1], ...}
Composite(results) ==
    Return(Value("dict",
        [i \in 1..Len(SlotNames) |-> [name |-> SlotNames[i], value |-> results[i]]]))

GatherWaitsForAll(g, t, after) ==
    IF g.kind # "pending" \/ \E c \in Children : after[c].pc # "done" THEN g
    ELSE IF \E c \in Children : Raised(after[c])
         THEN after[Min({c \in Children : Raised(after[c])})].result
         ELSE Composite([c \in Children |-> after[c].result.value])
\* gather without return_exceptions: the first child that raises settles the
\* future with its exception, the others go on running; when every child has
\* returned, the future holds their results in argument order.  A child that
\* ends after the future is settled changes nothing.
GatherOnDone(g, t, after) ==
    IF g.kind # "pending" THEN g
    ELSE IF Raised(after[t]) THEN after[t].result
         ELSE IF \A c \in Children : after[c].pc = "done"
              THEN Composite([c \in Children |-> after[c].result.value])
              ELSE g

CommitCancelsRest(t, new) ==
    LET ends == t \in Children /\ new.pc = "done"
        fails == ends /\ Raised(new) /\ gather.kind = "pending"
        after == [c \in Tasks |->
                    IF c = t THEN new
                    ELSE IF fails /\ c \in Children /\ tasks[c].pc # "done"
                         THEN Finish(tasks[c], Raise("CancelledError", Str(""), EmptyFcn))
                         ELSE tasks[c]]
    IN  /\ tasks' = after
        /\ gather' = IF ends THEN GatherOnDone(gather, t, after) ELSE gather
        /\ firstFail' = IF fails /\ firstFail = 0 THEN t ELSE firstFail
        /\ lastDone' = lastDone
\* Task t moves to the record new; a child that ends reports to gather.
Commit(t, new) ==
    LET after == [tasks EXCEPT ![t] = new]
        ends == t \in Children /\ new.pc = "done"
    IN  /\ tasks' = after
        /\ gather' = IF ends THEN GatherOnDone(gather, t, after) ELSE gather
        /\ firstFail' = IF ends /\ Raised(new) /\ firstFail = 0 THEN t ELSE firstFail
        /\ lastDone' = IF ends /\ gather.kind = "pending" /\ ~Raised(new)
                           /\ \A c \in Children : after[c].pc = "done"
                        THEN t ELSE lastDone

(* ------------------------------ actions --------------------------------- *)

Init ==
    /\ store \in [ServerIds -> Docs]
    /\ server_keys = EmptyFcn
    /\ session = "open"
    /\ tasks = [t \in Tasks |-> IdleTask]
    /\ gather = NoOutcome
    /\ lookups = [id \in ServerIds |-> 0]
    /\ writes = [id \in ServerIds |-> 0]
    /\ returned = [id \in ServerIds |-> {}]
    /\ rotated = [id \in ServerIds |-> FALSE]
    /\ firstFail = 0
    /\ changes = 0
    /\ lastDone = 0
    /\ stale = [id \in ServerIds |-> ""]
    /\ notFound = [id \in ServerIds |-> FALSE]
    /\ late = {}

\* History kept by the first step of a call for id made by n coroutines.
NoteStart(id, n) ==
    /\ lookups' = IF CacheMiss(id) THEN [lookups EXCEPT ![id] = @ + n] ELSE lookups
    /\ returned' = IF CacheMiss(id) THEN returned
                   ELSE [returned EXCEPT ![id] = @ \cup {server_keys[id]}]

\* A caller starts call c for server id: the coroutine runs to its first await.
Call(t, c, id) ==
    /\ tasks[t].pc = "idle"
    /\ \A u \in Standalone : u < t => tasks[u].pc # "idle"
    /\ Commit(t, FirstStep(c, id))
    /\ NoteStart(id, 1)
    /\ UNCHANGED <<store, server_keys, session, writes, rotated, changes, stale,
                   notFound, late>>

\* The key store answers find_one({"_id": server_id}) with what it holds now.
DbReply(t) ==
    /\ tasks[t].pc = "find"
    /\ Commit(t, [tasks[t] EXCEPT !.pc = "found", !.server = store[tasks[t].sid]])
    /\ UNCHANGED <<store, server_keys, session, lookups, writes, returned,
                   rotated, changes, stale, notFound, late>>

\* fetch_server_key resumes with the document: raise, or insert and go on.
FindReturned(t) ==
    LET task == tasks[t] IN
    /\ task.pc = "found"
    /\ IF Found(task.server)
       THEN LET cache == CacheInsert(server_keys, task.sid, task.server[1])
                key == cache[task.sid]
            IN  /\ server_keys' = cache
                /\ writes' = [writes EXCEPT ![task.sid] = @ + 1]
                /\ returned' = [returned EXCEPT ![task.sid] = @ \cup {key}]
                /\ Commit(t, AfterKey(task, key))
       ELSE /\ server_keys' = CacheOnMiss(server_keys, task.sid)
            /\ Commit(t, Finish(task, ServerLinkNotFound("API Key not found")))
            /\ UNCHANGED <<writes, returned>>
    /\ UNCHANGED <<store, session, lookups, rotated, changes, stale>>

FindReturn(t) == FindReturned(t) /\ UNCHANGED <<notFound, late>>

\* The same step, with the history of the ids a resolve has failed for.
FindReturnNoted(t) ==
    /\ FindReturned(t)
    /\ notFound' = IF Found(tasks[t].server) THEN notFound
                   ELSE [notFound EXCEPT ![tasks[t].sid] = TRUE]
    /\ UNCHANGED late

\* The same step, with the history of the children of gather that send their
\* request when the future of gather already holds an exception.
FindReturnLate(t) ==
    /\ FindReturned(t)
    /\ late' = IF gather.kind = "raise"
                   /\ Len(tasks'[t].requests) > Len(tasks[t].requests)
                THEN late \cup {t} ELSE late
    /\ UNCHANGED notFound

\* The request of t ends: resp.json(), the status test, the caller's decoding.
Respond(t, r) ==
    /\ tasks[t].pc = "resp"
    /\ Commit(t, OnReply(tasks[t], r))
    /\ UNCHANGED <<store, server_keys, session, lookups, writes, returned,
                   rotated, changes, stale, notFound, late>>

\* fetch_all_server_data(id): gather starts its four children back to back,
\* each running to its first await before anything else is scheduled.
FetchAll(id) ==
    LET first == [c \in Children |-> FirstStep(GatherCalls[c], id)]
        failed == {c \in Children : Raised(first[c])}
    IN  /\ gather.kind = "none"
        /\ \A c \in Children : tasks[c].pc = "idle"
        /\ tasks' = [t \in Tasks |-> IF t \in Children THEN first[t] ELSE tasks[t]]
        /\ gather' = IF failed = {} THEN [NoOutcome EXCEPT !.kind = "pending"]
                     ELSE first[Min(failed)].result
        /\ firstFail' = IF failed = {} THEN 0 ELSE Min(failed)
        /\ NoteStart(id, Len(GatherCalls))
        /\ UNCHANGED <<store, server_keys, session, writes, rotated, changes,
                       lastDone, stale, notFound, late>>

\* close(): await self.session.close()
Close ==
    /\ session' = "closed"
    /\ UNCHANGED <<store, server_keys, tasks, gather, lookups, writes, returned,
                   rotated, firstFail, changes, lastDone, stale, notFound, late>>

\* Outside the client, a server is linked (a key is stored for an id that had
\* none) or its key is rotated (replaced by another).
StoreChanged(id, k) ==
    /\ changes < MaxStoreChanges
    /\ store[id] # Doc(k)
    /\ store' = [store EXCEPT ![id] = Doc(k)]
    /\ rotated' = [rotated EXCEPT ![id] = @ \/ store[id] # NoDoc]
    /\ changes' = changes + 1
    /\ UNCHANGED <<server_keys, session, tasks, gather, lookups, writes,
                   returned, firstFail, lastDone, notFound, late>>

StoreChange(id, k) == StoreChanged(id, k) /\ UNCHANGED stale

\* The same change, with the history of what the cache held for the id when
\* its stored key was replaced.
StoreChangeNoted(id, k) ==
    /\ StoreChanged(id, k)
    /\ stale' = IF id \in DOMAIN server_keys /\ store[id] # NoDoc
                THEN [stale EXCEPT ![id] = server_keys[id]] ELSE stale

\* The replies that tell the children of gather apart.
GatherReplies == {r \in CoreReplies : r.net = "ok"}

(* --------------------------- specifications ----------------------------- *)

\* Key values are interchangeable: the store starts with no key or the key k1
\* for each id, and the other key enters it with a StoreChange.
InitOneKey == Init /\ store \in [ServerIds -> {NoDoc, Doc("k1")}]

StatusCall == FetchCall(Fetcher("_fetch_server_status"))

\* Concurrent callers of fetch_server_key and of one accessor.
Next ==
    \/ \E t \in Standalone, c \in CoreCalls, id \in ServerIds : Call(t, c, id)
    \/ \E t \in Standalone : DbReply(t)
    \/ \E t \in Standalone : FindReturn(t)
    \/ \E t \in Standalone, r \in CoreReplies : Respond(t, r)
    \/ Close
    \/ \E id \in ServerIds, k \in Keys : StoreChange(id, k)

Spec == Init /\ [][Next]_vars

\* Concurrent callers of fetch_server_key while the key store changes.
NextKeys ==
    \/ \E t \in Standalone, id \in ServerIds : Call(t, ResolveCall, id)
    \/ \E t \in Standalone : DbReply(t)
    \/ \E t \in Standalone : FindReturn(t)
    \/ \E id \in ServerIds, k \in Keys : StoreChange(id, k)

SpecKeys == InitOneKey /\ [][NextKeys]_vars

\* Concurrent callers of one accessor while the session is closed.
SessionReplies == {NetFailure, Response(200, JsonObject(EmptyFcn))}
NextSession ==
    \/ \E t \in Standalone, id \in ServerIds : Call(t, StatusCall, id)
    \/ \E t \in Standalone : DbReply(t)
    \/ \E t \in Standalone : FindReturn(t)
    \/ \E t \in Standalone, r \in SessionReplies : Respond(t, r)
    \/ Close

SpecSession == InitOneKey /\ [][NextSession]_vars

\* fetch_all_server_data with its four children, beside one accessor call.
OtherCall == Len(GatherCalls) + 1
NextAll ==
    \/ \E id \in ServerIds : FetchAll(id)
    \/ \E id \in ServerIds : Call(OtherCall, StatusCall, id)
    \/ \E t \in Children \cup {OtherCall} : DbReply(t)
    \/ \E t \in Children \cup {OtherCall} : FindReturn(t)
    \/ \E t \in Children \cup {OtherCall}, r \in GatherReplies : Respond(t, r)
    \/ Close

SpecAll == InitOneKey /\ [][NextAll]_vars

\* Concurrent callers of one accessor for servers with any keys.
HeaderReplies == {Response(200, JsonObject(EmptyFcn))}
NextHeaders ==
    \/ \E t \in Standalone, id \in ServerIds : Call(t, StatusCall, id)
    \/ \E t \in Standalone : DbReply(t)
    \/ \E t \in Standalone : FindReturn(t)
    \/ \E t \in Standalone, r \in HeaderReplies : Respond(t, r)

SpecHeaders == Init /\ [][NextHeaders]_vars

\* Concurrent callers of one accessor, each resolving its key and sending its
\* request, while the keys of linked servers are replaced in the store; with
\* the history of the cache at each change.
NextStale ==
    \/ \E t \in Standalone, id \in ServerIds : Call(t, StatusCall, id)
    \/ \E t \in Standalone : DbReply(t)
    \/ \E t \in Standalone : FindReturn(t)
    \/ \E t \in Standalone, r \in HeaderReplies : Respond(t, r)
    \/ \E id \in ServerIds, k \in Keys : StoreChangeNoted(id, k)

\* No server is linked at the start.
InitUnlinked == Init /\ store = [id \in ServerIds |-> NoDoc]

\* Concurrent callers of fetch_server_key while servers get linked, with the
\* history of the failed resolves.
NextLink ==
    \/ \E t \in Standalone, id \in ServerIds : Call(t, ResolveCall, id)
    \/ \E t \in Standalone : DbReply(t)
    \/ \E t \in Standalone : FindReturnNoted(t)
    \/ \E id \in ServerIds, k \in Keys : StoreChange(id, k)

SpecLink == InitUnlinked /\ [][NextLink]_vars

\* Every server is linked from the start, with the key k1.
InitLinked == Init /\ store = [id \in ServerIds |-> Doc("k1")]

SpecStale == InitLinked /\ [][NextStale]_vars

\* fetch_all_server_data alone, with the history of the children that go on
\* after the future of gather failed.
NextLate ==
    \/ \E id \in ServerIds : FetchAll(id)
    \/ \E t \in Children : DbReply(t)
    \/ \E t \in Children : FindReturnLate(t)
    \/ \E t \in Children, r \in GatherReplies : Respond(t, r)

SpecLate == InitOneKey /\ [][NextLate]_vars

\* One call of any accessor or command sender, against every reply.
NextDispatch ==
    \/ \E c \in Dispatches, id \in ServerIds : Call(OtherCall, c, id)
    \/ DbReply(OtherCall)
    \/ FindReturn(OtherCall)
    \/ \E r \in Replies : Respond(OtherCall, r)
    \/ Close

SpecDispatch == InitOneKey /\ [][NextDispatch]_vars

(* ------------------------------ claims ---------------------------------- *)

Started(t) == tasks[t].pc # "idle"
Done(t) == tasks[t].pc = "done"
IsDispatch(t) == tasks[t].call.op # "fetch_server_key"
Raises(t, type) == tasks[t].result.kind = "raise" /\ tasks[t].result.type = type
InFlight(id) ==
    Cardinality({t \in Tasks : tasks[t].pc \in {"find", "found"} /\ tasks[t].sid = id})

\* C1 as stated: a resolve that starts after an earlier resolve of the same id
\* has returned a key makes no external lookup and returns that same key.
C1_SameKeyAlways ==
    \A t \in Tasks :
        Started(t) /\ tasks[t].prev # {} =>
            tasks[t].lookups = 0 /\ tasks[t].prev = {tasks[t].key}

\* C1 amended: such a resolve makes no external lookup and returns at once;
\* the key equals the one returned before provided the key of the id was not
\* rotated in the store.
C1_CacheHit ==
    \A t \in Tasks :
        Started(t) /\ tasks[t].prev # {} =>
            /\ tasks[t].lookups = 0
            /\ tasks[t].key # ""
            /\ tasks[t].pc \notin {"find", "found"}
            /\ ~rotated[tasks[t].sid] => tasks[t].prev = {tasks[t].key}

C1_Witness ==
    \E t, u \in Tasks :
        /\ t # u /\ Done(t) /\ Done(u)
        /\ tasks[t].sid = tasks[u].sid
        /\ tasks[u].lookups = 1 /\ tasks[u].key # ""
        /\ tasks[t].prev = {tasks[u].key}
        /\ tasks[t].key = tasks[u].key /\ tasks[t].lookups = 0

\* C2 as stated: at most one external lookup per server id.
C2_AtMostOneLookup == \A id \in ServerIds : lookups[id] <= 1

\* C2 amended: no external lookup for a server id is made once the id has an
\* entry in the cache; lookups are made only while the id has none, one by each
\* resolve that finds it missing.
C2_NoLookupOnceCached ==
    [][\A id \in DOMAIN server_keys : lookups'[id] = lookups[id]]_vars

C2_Witness ==
    \E id \in DOMAIN server_keys :
        /\ lookups[id] >= 2
        /\ \E t \in Tasks : Done(t) /\ tasks[t].sid = id /\ tasks[t].lookups = 0

\* C3 as stated: once an id has an entry, the entry is never removed and never
\* assigned again.
C3_NeverWrittenAgain ==
    [][\A id \in DOMAIN server_keys :
          id \in DOMAIN server_keys' /\ writes'[id] = writes[id]]_vars

\* C3 amended: once an id has an entry, the entry is never removed, no resolve
\* starts a lookup for it, and it is assigned again only by a resolve whose
\* lookup was already in flight, one assignment per such resolve.
C3_OnlyInFlightRewrites ==
    [][\A id \in DOMAIN server_keys :
          /\ id \in DOMAIN server_keys'
          /\ InFlight(id)' <= InFlight(id)
          /\ writes'[id] # writes[id] =>
                /\ writes'[id] = writes[id] + 1
                /\ InFlight(id)' = InFlight(id) - 1
          /\ server_keys'[id] # server_keys[id] => writes'[id] # writes[id]]_vars

C3_Witness ==
    \E id \in DOMAIN server_keys : writes[id] >= 2 /\ InFlight(id) = 0

\* C4: a call for a server id that has no document in the key store ends with
\* ServerLinkNotFound and never issues an HTTP request, as a standalone call and
\* as a child of fetch_all_server_data, whose future then holds that error.
C4_UnlinkedFails ==
    /\ \A t \in Tasks :
          Started(t) /\ store[tasks[t].sid] = NoDoc =>
              /\ tasks[t].requests = << >>
              /\ tasks[t].pc # "resp"
              /\ Done(t) => Raises(t, "ServerLinkNotFound")
    /\ \A c \in Children :
          Done(c) /\ store[tasks[c].sid] = NoDoc =>
              gather.kind = "raise" /\ gather.type = "ServerLinkNotFound"

C4_Witness ==
    /\ \E c \in Children : Done(c) /\ Raises(c, "ServerLinkNotFound")
    /\ gather.kind = "raise"
    /\ Done(OtherCall) /\ IsDispatch(OtherCall)
    /\ Raises(OtherCall, "ServerLinkNotFound")

\* C5 as stated: a decoded response with a status other than 200 ends the
\* dispatch with a ResponseFailed from which the caller reads the decoded body
\* (data), the detail of the table for that status and the status (code).
C5_FailureCarriesAll ==
    \A t \in Tasks :
        Done(t) /\ tasks[t].data.t # "none" /\ tasks[t].status # 200 =>
            /\ Raises(t, "ResponseFailed")
            /\ {"data", "detail", "code"} \subseteq DOMAIN tasks[t].result.attrs
            /\ tasks[t].result.attrs["code"] = tasks[t].status
            /\ tasks[t].result.attrs["detail"] =
                  (CASE tasks[t].status = 429 -> "Rate limited"
                     [] tasks[t].status = 400 -> "Bad Request"
                     [] tasks[t].status = 403 -> "Unauthorized"
                     [] tasks[t].status = 422 -> "The private server has no players in it"
                     [] tasks[t].status = 500 -> "Problem communicating with Roblox"
                     [] OTHER -> "Unexpected Error")
            /\ tasks[t].result.attrs["data"] = tasks[t].data

\* C6 as stated: a 200 response whose JSON is an array of N objects gives
\* _fetch_data a list of N records, the i-th built from the i-th object; a
\* single object gives one record.
C6_OneRecordPerObject ==
    \A t \in Tasks :
        Done(t) /\ tasks[t].call.op = "_fetch_data" /\ tasks[t].status = 200
            /\ tasks[t].data.t \in {"array", "object"} =>
            LET data == tasks[t].data
                res == tasks[t].result
            IN  /\ res.kind = "return"
                /\ res.value.t = (IF data.t = "array" THEN "list" ELSE "instance")
                /\ Len(res.value.items) = Len(data.items)
                /\ \A i \in 1..Len(data.items) :
                      /\ res.value.items[i].cls = tasks[t].call.cls
                      /\ res.value.items[i].attrs = data.items[i]

QueueChild == CHOOSE c \in Children : GatherCalls[c].name = "_fetch_server_queue"

\* C7 as stated: when the four children return, the composite has its four
\* slots populated; when the queue child receives status 422, the aggregate
\* fails with a ResponseFailed whose detail is the 422 entry and whose code is
\* 422, whatever the other three do.
C7_Queue422Reported ==
    /\ gather.kind = "return" =>
          /\ gather.value.t = "dict"
          /\ \A i \in 1..Len(SlotNames) :
                gather.value.items[i].value.t \in {"instance", "list"}
    /\ Done(QueueChild) /\ tasks[QueueChild].status = 422 =>
          /\ gather.kind = "raise" /\ gather.type = "ResponseFailed"
          /\ {"detail", "code"} \subseteq DOMAIN gather.attrs
          /\ gather.attrs["detail"] = "The private server has no players in it"
          /\ gather.attrs["code"] = 422

\* C8 as stated: a dispatch that starts after close() ends with the
\* closed-session error and issues no HTTP request.
C8_ClosedErrorAlways ==
    \A t \in Tasks :
        Done(t) /\ IsDispatch(t) /\ tasks[t].closedAtStart =>
            Raises(t, "RuntimeError") /\ tasks[t].requests = << >>

\* C8 amended: a dispatch that starts after close() issues no HTTP request and
\* never waits for a response; it ends with ServerLinkNotFound when its key does
\* not resolve and with the closed-session error otherwise.  The session, open
\* from construction, is never reopened once closed.
C8_FailsAfterClose ==
    /\ [](\A t \in Tasks :
            Started(t) /\ IsDispatch(t) /\ tasks[t].closedAtStart =>
                /\ tasks[t].requests = << >>
                /\ tasks[t].pc # "resp"
                /\ Done(t) =>
                      IF tasks[t].key = "" THEN Raises(t, "ServerLinkNotFound")
                      ELSE Raises(t, "RuntimeError"))
    /\ [][session = "closed" => session' = "closed"]_vars

C8_Witness ==
    \E t \in Tasks :
        /\ Done(t) /\ IsDispatch(t) /\ tasks[t].closedAtStart
        /\ tasks[t].lookups = 1
        /\ Raises(t, "RuntimeError")

IsSender(t) == tasks[t].call.op \in {"_send_command", "_send_message_command"}
\* The POST the claim describes for the call of task t.
IsCommandPost(t, req) ==
    /\ req.method = "POST"
    /\ req.url = "base_url/server/command"
    /\ req.json = [n \in {"command"} |->
                      IF tasks[t].call.op = "_send_message_command"
                      THEN ":m " \o tasks[t].call.text ELSE tasks[t].call.text]

\* C9 as stated: every _send_command and _send_message_command call issues
\* exactly one POST to server/command with the command (":m " + text) as body.
C9_ExactlyOnePost ==
    \A t \in Tasks :
        Done(t) /\ IsSender(t) =>
            Len(tasks[t].requests) = 1 /\ IsCommandPost(t, tasks[t].requests[1])

\* C9 amended: such a call issues at most one request, which is that POST; it
\* issues exactly one unless the key does not resolve (ServerLinkNotFound) or
\* the session is closed, and then it issues none.
C9_PostWhenResolved ==
    \A t \in Tasks :
        Started(t) /\ IsSender(t) =>
            /\ Len(tasks[t].requests) <= 1
            /\ \A i \in 1..Len(tasks[t].requests) : IsCommandPost(t, tasks[t].requests[i])
            /\ Len(tasks[t].requests) = 1 <=>
                  \/ tasks[t].pc = "resp"
                  \/ /\ Done(t)
                     /\ ~Raises(t, "ServerLinkNotFound")
                     /\ ~Raises(t, "RuntimeError")

C9_Witness ==
    \E t \in Tasks :
        /\ Done(t) /\ tasks[t].call.op = "_send_message_command"
        /\ tasks[t].call.text = "hello"
        /\ tasks[t].result.kind = "return"
        /\ Len(tasks[t].requests) = 1
        /\ tasks[t].requests[1].json["command"] = ":m hello"

SameOutcome(a, b) ==
    /\ a.kind = b.kind /\ a.type = b.type /\ a.value.t = b.value.t
    /\ a = b

\* C10: the future of gather holds the exception of the child that raised
\* first in time, from the step in which that child raised, while the other
\* children may still be running; it holds no exception while no child raised.
C10_FailFast ==
    /\ (\E c \in Children : Raised(tasks[c])) => firstFail # 0
    /\ firstFail # 0 =>
          /\ Raised(tasks[firstFail])
          /\ SameOutcome(gather, tasks[firstFail].result)
    /\ firstFail = 0 => gather.kind # "raise"

C10_Witness ==
    /\ gather.kind = "raise" /\ gather.type = "ResponseFailed"
    /\ \E c \in Children :
          /\ c < firstFail /\ tasks[c].pc = "resp"
    /\ \E c \in Children :
          /\ c < firstFail /\ Raised(tasks[c])
          /\ tasks[c].status # tasks[firstFail].status

\* The endpoint whose result the claim puts in each slot of the composite.
SlotEndpoint ==
    [n \in {"status", "players", "join_logs", "queue"} |->
        CASE n = "status" -> "server"
          [] n = "players" -> "server/players"
          [] n = "join_logs" -> "server/joinlogs"
          [] OTHER -> "server/queue"]

\* C11: when fetch_all_server_data returns, its dict has the four slots status,
\* players, join_logs and queue, and each slot holds the value returned by the
\* child that requested the endpoint of that slot (server, server/players,
\* server/joinlogs, server/queue), in whatever order the children ended.
C11_SlotsByEndpoint ==
    gather.kind = "return" =>
        /\ gather.value.t = "dict"
        /\ {gather.value.items[i].name : i \in DOMAIN gather.value.items}
              = DOMAIN SlotEndpoint
        /\ Len(gather.value.items) = Cardinality(DOMAIN SlotEndpoint)
        /\ \A i \in DOMAIN gather.value.items :
              LET slot == gather.value.items[i] IN
              \E c \in Children :
                  /\ Done(c) /\ tasks[c].result.kind = "return"
                  /\ Len(tasks[c].requests) = 1
                  /\ tasks[c].requests[1].url = "base_url/" \o SlotEndpoint[slot.name]
                  /\ slot.value = tasks[c].result.value

\* The composite was completed by a child other than the last argument of
\* gather: the children ended out of argument order.
C11_Witness ==
    /\ gather.kind = "return"
    /\ lastDone \in Children /\ lastDone # Len(GatherCalls)
    /\ \A c \in Children : tasks[c].result.kind = "return"
    /\ \A c, d \in Children : c # d => tasks[c].result.value # tasks[d].result.value

\* Two resolves of one id that both found it uncached and both returned a
\* key: each started before the other inserted, so they ran concurrently.
Racers(t, u) ==
    /\ t # u /\ Done(t) /\ Done(u)
    /\ tasks[t].sid = tasks[u].sid
    /\ tasks[t].lookups = 1 /\ tasks[u].lookups = 1
    /\ tasks[t].key # "" /\ tasks[u].key # ""

\* C12 as stated: all the keys fetch_server_key has returned for an id, to the
\* resolves that raced on it while it was uncached and to the later ones, are
\* one key, and the cache entry the writers leave equals it.
C12_RaceSameKey ==
    \A id \in ServerIds :
        returned[id] # {} =>
            /\ Cardinality(returned[id]) = 1
            /\ id \in DOMAIN server_keys
            /\ returned[id] = {server_keys[id]}

\* C12 amended: the same, provided the key of the id has not been rotated in
\* the store; resolves that find no key return none.
C12_RaceSameKeyUnlessRotated ==
    \A id \in ServerIds :
        returned[id] # {} /\ ~rotated[id] =>
            /\ Cardinality(returned[id]) = 1
            /\ id \in DOMAIN server_keys
            /\ returned[id] = {server_keys[id]}

\* Two resolves raced on a cold id, each made its own lookup and insertion,
\* and both returned the key the cache holds.
C12_Witness ==
    \E t, u \in Tasks :
        /\ Racers(t, u) /\ ~rotated[tasks[t].sid]
        /\ lookups[tasks[t].sid] >= 2 /\ writes[tasks[t].sid] >= 2
        /\ tasks[t].result.kind = "return" /\ tasks[u].result.kind = "return"
        /\ server_keys[tasks[t].sid] = tasks[u].key
        /\ returned[tasks[t].sid] = {tasks[t].key, tasks[u].key}

\* The key a request carries in its Server-Key header.
ServerKeyOf(req) == req.headers["Server-Key"]

\* C13 as stated: a call for an id that starts after the stored key of the id
\* was changed while the id was cached uses the key that was cached then, and
\* the entry keeps that key.
C13_OldKeyForever ==
    /\ \A t \in Tasks :
          Started(t) /\ tasks[t].staleAtStart # "" =>
              /\ tasks[t].key = tasks[t].staleAtStart
              /\ \A i \in 1..Len(tasks[t].requests) :
                    ServerKeyOf(tasks[t].requests[i]) = tasks[t].staleAtStart
    /\ \A id \in ServerIds :
          stale[id] # "" => id \in DOMAIN server_keys /\ server_keys[id] = stale[id]

\* C13 amended: such a call makes no external lookup and uses the key it finds
\* in the cache, whatever the store holds; the entry is never removed, and it
\* holds another key than the one cached at the change only when a second
\* resolve, one whose lookup was in flight when the entry was inserted, has
\* assigned it.
C13_CachedKeyServed ==
    /\ \A t \in Tasks :
          Started(t) /\ tasks[t].staleAtStart # "" =>
              /\ tasks[t].lookups = 0
              /\ tasks[t].key # ""
              /\ tasks[t].pc \notin {"find", "found"}
              /\ tasks[t].key \in tasks[t].prev
              /\ tasks[t].key # tasks[t].staleAtStart => writes[tasks[t].sid] >= 2
              /\ Len(tasks[t].requests) = 1
              /\ ServerKeyOf(tasks[t].requests[1]) = tasks[t].key
    /\ \A id \in ServerIds :
          stale[id] # "" =>
              /\ id \in DOMAIN server_keys
              /\ server_keys[id] # stale[id] => writes[id] >= 2

\* A call that started after the change resolved the old key and sent it,
\* although the store holds another one.
C13_Witness ==
    \E t \in Tasks :
        /\ Done(t) /\ tasks[t].staleAtStart # ""
        /\ tasks[t].result.kind = "return"
        /\ tasks[t].key = tasks[t].staleAtStart
        /\ ServerKeyOf(tasks[t].requests[1]) = tasks[t].staleAtStart
        /\ store[tasks[t].sid] # Doc(tasks[t].key)
        /\ server_keys[tasks[t].sid] = tasks[t].key

\* The errors a dispatch hands to its caller: ResponseFailed, the transport
\* errors of aiohttp, ServerLinkNotFound, and the TypeError of a record that
\* cannot be built.
FailureTypes ==
    {"ResponseFailed", "ClientError", "ContentTypeError", "RuntimeError",
     "ServerLinkNotFound", "TypeError"}

\* C14: a dispatch makes at most one find_one lookup and issues at most one
\* HTTP request; once it has ended, with a value or with an error, it takes no
\* further step: no lookup, no request, and its outcome stays the one its
\* caller received.
C14_NoRetry ==
    /\ [](\A t \in Tasks :
            Started(t) /\ IsDispatch(t) =>
                /\ tasks[t].lookups <= 1
                /\ lookups[tasks[t].sid] <= 1
                /\ Len(tasks[t].requests) <= 1
                /\ Done(t) /\ tasks[t].result.kind = "raise" =>
                      tasks[t].result.type \in FailureTypes)
    /\ [][\A t \in Tasks :
            Done(t) /\ IsDispatch(t) =>
                tasks'[t] = tasks[t] /\ lookups' = lookups]_vars

C14_Witness ==
    \E t \in Tasks :
        /\ Done(t) /\ IsDispatch(t)
        /\ Raises(t, "ResponseFailed") /\ tasks[t].status = 429
        /\ tasks[t].lookups = 1 /\ Len(tasks[t].requests) = 1
        /\ session = "closed"

\* A response arrived for the request of t and its body did not decode:
\* resp.status was read and data was never bound.
UndecodableReply(t) ==
    Done(t) /\ tasks[t].status # 0 /\ tasks[t].data.t = "none"

\* C15: a dispatch whose response has a body that does not decode as JSON ends
\* with the decoding error of resp.json(), for status 200 and for every other
\* status; it never ends with ResponseFailed and never returns a value.
C15_DecodeBeforeStatus ==
    \A t \in Tasks :
        UndecodableReply(t) =>
            /\ Raises(t, "ContentTypeError")
            /\ Len(tasks[t].requests) = 1

C15_Witness ==
    /\ UndecodableReply(OtherCall)
    /\ tasks[OtherCall].status = 429
    /\ Raises(OtherCall, "ContentTypeError")

\* C16: every request a coroutine has issued was made for the server id of
\* its call, and its Server-Key header is the key of a document that find_one
\* returned to some coroutine for that same server id.
C16_KeyOfSameServer ==
    \A t \in Tasks : \A i \in 1..Len(tasks[t].requests) :
        LET req == tasks[t].requests[i] IN
        /\ req.sid = tasks[t].sid
        /\ \E u \in Tasks :
              /\ tasks[u].sid = req.sid
              /\ tasks[u].lookups = 1
              /\ tasks[u].server = Doc(ServerKeyOf(req))

\* Requests for two servers are in flight together, each with the key of its
\* own server, and the two keys differ.
C16_Witness ==
    \E t, u \in Tasks :
        /\ tasks[t].pc = "resp" /\ tasks[u].pc = "resp"
        /\ tasks[t].sid # tasks[u].sid
        /\ ServerKeyOf(tasks[t].requests[1]) # ServerKeyOf(tasks[u].requests[1])
        /\ store[tasks[t].sid] = Doc(ServerKeyOf(tasks[t].requests[1]))
        /\ store[tasks[u].sid] = Doc(ServerKeyOf(tasks[u].requests[1]))

\* C17 as stated: a resolve that starts after a resolve of the same id has
\* ended with ServerLinkNotFound makes the external lookup again.
C17_LooksUpAgain ==
    \A t \in Tasks :
        Started(t) /\ tasks[t].failedBefore => tasks[t].lookups = 1

\* C17 amended: the step in which a resolve ends with ServerLinkNotFound
\* leaves the cache as it was, and the cache never holds anything but keys;
\* a resolve that starts after such a failure makes the external lookup again
\* unless another resolve has inserted the id meanwhile, and then it returns
\* the cached key; when its lookup finds a document it returns the key, and
\* it fails only when its own lookup finds none.
C17_FailureNotCached ==
    /\ [](/\ \A id \in DOMAIN server_keys : server_keys[id] \in Keys
          /\ \A t \in Tasks :
                Started(t) /\ tasks[t].failedBefore =>
                    /\ tasks[t].lookups = 0 =>
                          /\ tasks[t].key \in Keys
                          /\ tasks[t].key \in tasks[t].prev
                    /\ Done(t) /\ tasks[t].lookups = 1 =>
                          IF Found(tasks[t].server)
                          THEN /\ tasks[t].result.kind = "return"
                               /\ tasks[t].key = tasks[t].server[1]
                          ELSE Raises(t, "ServerLinkNotFound"))
    /\ [][\A t \in Tasks :
            ~Done(t) /\ Done(t)' /\ Raises(t, "ServerLinkNotFound")' =>
                server_keys' = server_keys /\ writes' = writes]_vars

\* After a failed resolve the server was linked, and a resolve started then
\* made its own lookup and returned the stored key.
C17_Witness ==
    \E t, u \in Tasks :
        /\ tasks[t].sid = tasks[u].sid
        /\ Done(u) /\ Raises(u, "ServerLinkNotFound")
        /\ Done(t) /\ tasks[t].failedBefore
        /\ tasks[t].lookups = 1 /\ tasks[t].result.kind = "return"
        /\ store[tasks[t].sid] = Doc(tasks[t].key)
        /\ writes[tasks[t].sid] = 1

\* C18: no child of gather is ever cancelled: a child ends only by a step of
\* its own code.  Once the future of gather holds an exception it holds that
\* exception for good, whatever the other children do afterwards; a child
\* that goes on after that inserts into the cache and sends its request as
\* any call does.
C18_OthersRunOn ==
    /\ [](/\ \A c \in Children : ~Raises(c, "CancelledError")
          /\ \A c \in late :
                /\ gather.kind = "raise" /\ c # firstFail
                /\ Len(tasks[c].requests) = 1
                /\ tasks[c].sid \in DOMAIN server_keys
                /\ writes[tasks[c].sid] >= 1)
    /\ [][/\ gather.kind = "raise" => gather' = gather /\ firstFail' = firstFail
          /\ \A c \in Children :
                ~Done(c) /\ Done(c)' => tasks[c].pc \in {"idle", "found", "resp"}]_vars

\* After the future of gather failed, one child inserted the key, sent its
\* request and returned its record, and another sent its request and failed
\* with another status than the one reported.
C18_Witness ==
    /\ gather.kind = "raise" /\ gather.type = "ResponseFailed"
    /\ \E c \in late :
          /\ Done(c) /\ tasks[c].result.kind = "return"
          /\ writes[tasks[c].sid] >= 2
    /\ \E d \in late :
          /\ Raised(tasks[d])
          /\ tasks[d].status # tasks[firstFail].status

====
